---- MODULE Spec2Model ----
(***************************************************************************)
(* Wayfinder route search (AStarPathfinder.findOptimalRoute) and the       *)
(* constant-product pricing function, modelled from the TypeScript SDK.    *)
(*                                                                         *)
(* BN values are arbitrary-precision integers; the model keeps every       *)
(* amount small enough for the checker's integers, so no width is lost.    *)
(***************************************************************************)
EXTENDS Integers, Sequences, FiniteSets, TLC

(***************************************************************************)
(* Bounds of the model.                                                    *)
(***************************************************************************)
\* longest pool snapshot handed to the constructor
MaxPools == 5
\* amountIn of a search ranges over 10, 20, ..., 10 * MaxAmountK
MaxAmountK == 2
\* the constructor's maxHops argument ranges over -1 .. MaxHopsArg
MaxHopsArg == 6
\* amountIn of a pricing probe ranges over 0 .. MaxPriceAmount
MaxPriceAmount == 12

(***************************************************************************)
(* Program constants.                                                      *)
(***************************************************************************)
\* Math.min(maxHops, 5)
HopCap == 5
\* basis-point denominator of the pricing formula
BPS == 10000

Tokens == {"X", "Y", "Z", "W", "V"}

\* getOtherToken's null
NoToken == "null"

(***************************************************************************)
(* PoolInfo (types.ts): address, tokenA, tokenB, feeBps, reserveA,         *)
(* reserveB.                                                               *)
(***************************************************************************)
PoolInfo(addr, a, b, fee, ra, rb) ==
    [address |-> addr, tokenA |-> a, tokenB |-> b, feeBps |-> fee,
     reserveA |-> ra, reserveB |-> rb]

(***************************************************************************)
(* Outcomes of a call that returns BN | null or throws.                    *)
(***************************************************************************)
Some(n) == [kind |-> "some", val |-> n]
Null == [kind |-> "null", val |-> 0]
Throw == [kind |-> "throw", val |-> 0]

\* bn.js div: truncating division of arbitrary-precision integers
BNDiv(n, d) ==
    LET an == IF n < 0 THEN 0 - n ELSE n
        ad == IF d < 0 THEN 0 - d ELSE d
        q  == an \div ad
    IN  IF (n < 0) = (d < 0) THEN q ELSE 0 - q

\* the four intermediate BN values of getOutputAmount, for the input mint
PricingTerms(pool, inputMint, amountIn) ==
    LET isTokenA == inputMint = pool.tokenA
        reserveIn == IF isTokenA THEN pool.reserveA ELSE pool.reserveB
        reserveOut == IF isTokenA THEN pool.reserveB ELSE pool.reserveA
        feeFactor == BPS - pool.feeBps
        amountInWithFee == amountIn * feeFactor
    IN  [numerator |-> amountInWithFee * reserveOut,
         denominator |-> reserveIn * BPS + amountInWithFee]

\* the same terms with the two reserves exchanged
PricingTermsSwapped(pool, inputMint, amountIn) ==
    PricingTerms(pool, IF inputMint = pool.tokenA THEN pool.tokenB ELSE pool.tokenA,
                 amountIn)

\* getOutputAmount reading reserveA/reserveB the wrong way round
getOutputAmountSwapped(pool, inputMint, amountIn) ==
    IF inputMint # pool.tokenA /\ inputMint # pool.tokenB
    THEN Null
    ELSE LET t == PricingTermsSwapped(pool, inputMint, amountIn)
         IN  IF t.denominator = 0
             THEN Null
             ELSE Some(BNDiv(t.numerator, t.denominator))

\* getOutputAmount subtracting amountInWithFee in the denominator
getOutputAmountMinus(pool, inputMint, amountIn) ==
    IF inputMint # pool.tokenA /\ inputMint # pool.tokenB
    THEN Null
    ELSE LET isTokenA == inputMint = pool.tokenA
             reserveIn == IF isTokenA THEN pool.reserveA ELSE pool.reserveB
             reserveOut == IF isTokenA THEN pool.reserveB ELSE pool.reserveA
             amountInWithFee == amountIn * (BPS - pool.feeBps)
             numerator == amountInWithFee * reserveOut
             denominator == reserveIn * BPS - amountInWithFee
         IN  IF denominator = 0
             THEN Null
             ELSE Some(BNDiv(numerator, denominator))

\* AStarPathfinder.getOutputAmount
getOutputAmount(pool, inputMint, amountIn) ==
    IF inputMint # pool.tokenA /\ inputMint # pool.tokenB
    THEN Null
    ELSE LET t == PricingTerms(pool, inputMint, amountIn)
         IN  IF t.denominator = 0
             THEN Null
             ELSE Some(BNDiv(t.numerator, t.denominator))

\* PoolInfoState.getOutputAmount: no zero check, BN.div throws on a zero divisor
stateGetOutputAmount(pool, inputMint, amountIn) ==
    IF inputMint # pool.tokenA /\ inputMint # pool.tokenB
    THEN Null
    ELSE LET t == PricingTerms(pool, inputMint, amountIn)
         IN  IF t.denominator = 0
             THEN Throw
             ELSE Some(BNDiv(t.numerator, t.denominator))

\* AStarPathfinder.getOtherToken
getOtherToken(pool, token) ==
    IF token = pool.tokenA THEN pool.tokenB
    ELSE IF token = pool.tokenB THEN pool.tokenA
    ELSE NoToken

(***************************************************************************)
(* State.                                                                  *)
(***************************************************************************)
VARIABLES
    pools,         \* this.pools: the snapshot, in the caller's order
    hopsArg,       \* the maxHops argument the constructor was given
    maxHops,       \* this.maxHops
    inputMint,     \* arguments of the findOptimalRoute call in progress
    outputMint,
    amountIn,
    openSet,       \* PathNode[]
    visited,       \* Set<string>
    bestRoutes,    \* Map<string, {amount, hops}>
    bestSolution,  \* {route, amountOut} | null
    result,        \* what findOptimalRoute returned
    pc,            \* "idle" | "loop" | "done" | "quoted" | "probe"
    probe,         \* a pricing call: pool, inputMint, amountIn
    quoted,        \* AStarPathfinder.getOutputAmount's outcome for the probe
    stateQuoted,   \* PoolInfoState.getOutputAmount's outcome for the probe
    expansions,    \* the tokens passed to visited.add, in order
    quote          \* what getSwapQuote returned

vars == <<pools, hopsArg, maxHops, inputMint, outputMint, amountIn, openSet,
          visited, bestRoutes, bestSolution, result, pc, probe, quoted,
          stateQuoted, expansions, quote>>

searchVars == <<openSet, visited, bestRoutes, bestSolution>>
callVars == <<inputMint, outputMint, amountIn>>
ctorVars == <<pools, hopsArg, maxHops>>
probeVars == <<probe, quoted, stateQuoted>>

\* SwapQuote | null
NoQuote ==
    [found |-> FALSE, inputAmount |-> 0, outputAmount |-> 0, priceImpact |-> 0,
     fee |-> 0, route |-> <<>>]

\* {route, amountOut} | null
NoRoute == [found |-> FALSE, route |-> <<>>, amountOut |-> 0]
Route(path, amount) == [found |-> TRUE, route |-> path, amountOut |-> amount]

(***************************************************************************)
(* The constructor: this.maxHops = Math.min(maxHops, 5).                   *)
(***************************************************************************)
ClampMaxHops(h) == IF h < HopCap THEN h ELSE HopCap

(***************************************************************************)
(* PathNode.cost.  The seed's cost is 0 and every pushed node's is         *)
(* 2^64 - amountOut; a cost is kept as <<k, m>> for k * 2^64 - m, and      *)
(* compared as BN.cmp compares the two numbers, every amount being below   *)
(* 2^64.                                                                   *)
(***************************************************************************)
SeedCost == [k |-> 0, m |-> 0]
PushCost(amountOut) == [k |-> 1, m |-> amountOut]

CostCmp(a, b) ==
    IF a.k # b.k THEN (IF a.k < b.k THEN 0 - 1 ELSE 1)
    ELSE IF a.m = b.m THEN 0
    ELSE IF a.m > b.m THEN 0 - 1 ELSE 1

\* the comparator of openSet.sort: cost ascending, then hops ascending
NodeCompare(a, b) ==
    LET cmp == CostCmp(a.cost, b.cost)
    IN  IF cmp = 0 THEN a.hops - b.hops ELSE cmp

\* x put behind every element of the sorted sequence that does not follow it
RECURSIVE InsertNode(_, _)
InsertNode(sorted, x) ==
    IF sorted = <<>> THEN <<x>>
    ELSE IF NodeCompare(Head(sorted), x) <= 0
         THEN <<Head(sorted)>> \o InsertNode(Tail(sorted), x)
         ELSE <<x>> \o sorted

\* Array.prototype.sort with NodeCompare: a stable sort
RECURSIVE SortFrom(_, _)
SortFrom(sorted, rest) ==
    IF rest = <<>> THEN sorted
    ELSE SortFrom(InsertNode(sorted, Head(rest)), Tail(rest))

SortOpenSet(nodes) == SortFrom(<<>>, nodes)

(***************************************************************************)
(* One search, as the record of its four locals.                           *)
(***************************************************************************)
Locals(os, vs, br, bs) ==
    [openSet |-> os, visited |-> vs, bestRoutes |-> br, bestSolution |-> bs]

\* lines 31-45: the seed candidate and its best-known entry
SeedNode(inMint, amount) ==
    [token |-> inMint, cost |-> SeedCost, hops |-> 0, path |-> <<>>,
     amountOut |-> amount]

SeedLocals(inMint, amount) ==
    Locals(<<SeedNode(inMint, amount)>>, {},
           (inMint :> [amount |-> amount, hops |-> 0]), NoRoute)

\* the stale check skipping nothing
IsStaleNever(current, br) == FALSE

\* "Skip if we've found a better path to this token"
IsStale(current, br) ==
    /\ current.token \in DOMAIN br
    /\ \/ current.amountOut < br[current.token].amount
       \/ /\ current.amountOut = br[current.token].amount
          /\ current.hops > br[current.token].hops

\* the destination check keeping the first solution whatever follows
UpdateSolutionFirstOnly(bs, current) ==
    IF ~bs.found THEN Route(current.path, current.amountOut) ELSE bs

\* "Check if we reached the destination": bestSolution after the check
UpdateSolution(bs, current) ==
    IF ~bs.found \/ current.amountOut > bs.amountOut
    THEN Route(current.path, current.amountOut)
    ELSE bs

\* the hop check letting a node at the limit expand once more
AtMaxHopsOffByOne(current, h) == current.hops > h

\* "Don't expand if we've hit max hops"
AtMaxHops(current, h) == current.hops >= h

\* shouldExplore accepting a neighbour only the first time it is seen
ShouldExploreFirstOnly(br, nextKey, amountOut, hops) ==
    nextKey \notin DOMAIN br

\* shouldExplore accepting every priced neighbour
ShouldExploreAlways(br, nextKey, amountOut, hops) == TRUE

\* shouldExplore
ShouldExplore(br, nextKey, amountOut, hops) ==
    \/ nextKey \notin DOMAIN br
    \/ amountOut > br[nextKey].amount
    \/ amountOut = br[nextKey].amount /\ hops + 1 < br[nextKey].hops

\* the visited check finding nothing visited
IsVisitedNever(vs, nextKey) == FALSE

\* visited.has(nextKey)
IsVisited(vs, nextKey) == nextKey \in vs

\* the pushed node with the pool left out of its path
NewNodeKeepPath(current, pool, nextToken, amountOut) ==
    [token |-> nextToken,
     cost |-> PushCost(amountOut),
     hops |-> current.hops + 1,
     path |-> current.path,
     amountOut |-> amountOut]

\* the PathNode pushed for a neighbour: newPath, cost, hops + 1
NewNode(current, pool, nextToken, amountOut) ==
    [token |-> nextToken,
     cost |-> PushCost(amountOut),
     hops |-> current.hops + 1,
     path |-> Append(current.path, pool.address),
     amountOut |-> amountOut]

\* The body of "for (const pool of this.pools)" for the pools from index i
\* on: s carries openSet and bestRoutes through the iterations.
RECURSIVE Explore(_, _, _, _)
Explore(P, i, current, s) ==
    IF i > Len(P) THEN s
    ELSE
      LET pool == P[i]
          nextToken == getOtherToken(pool, current.token)
          out == getOutputAmount(pool, current.token, current.amountOut)
      IN  IF nextToken = NoToken THEN Explore(P, i + 1, current, s)
          ELSE IF IsVisited(s.visited, nextToken) THEN Explore(P, i + 1, current, s)
          ELSE IF out.kind = "null" \/ out.val = 0
               THEN Explore(P, i + 1, current, s)
          ELSE IF ShouldExplore(s.bestRoutes, nextToken, out.val, current.hops)
               THEN Explore(P, i + 1, current,
                      [s EXCEPT
                         !.bestRoutes =
                            (nextToken :> [amount |-> out.val,
                                           hops |-> current.hops + 1]) @@ @,
                         !.openSet = Append(@,
                            NewNode(current, pool, nextToken, out.val))])
          ELSE Explore(P, i + 1, current, s)

\* which branch one iteration of the while loop takes for the popped node
Branch(current, s, h, outMint) ==
    IF IsStale(current, s.bestRoutes) THEN "stale"
    ELSE IF current.token = outMint THEN "destination"
    ELSE IF AtMaxHops(current, h) THEN "maxhops"
    ELSE "expand"

\* one iteration of the while loop, openSet being non-empty
LoopBody(P, h, outMint, s) ==
    LET sorted == SortOpenSet(s.openSet)
        current == Head(sorted)
        popped == [s EXCEPT !.openSet = Tail(sorted)]
        branch == Branch(current, s, h, outMint)
    IN  IF branch = "stale" THEN popped
        ELSE IF branch = "destination"
             THEN [popped EXCEPT
                     !.bestSolution = UpdateSolution(@, current)]
        ELSE IF branch = "maxhops" THEN popped
        ELSE Explore(P, 1, current,
                     [popped EXCEPT !.visited = @ \cup {current.token}])

\* the while loop run to exhaustion: the value of bestSolution at the return
RECURSIVE RunLoop(_, _, _, _)
RunLoop(P, h, outMint, s) ==
    IF s.openSet = <<>> THEN s.bestSolution
    ELSE RunLoop(P, h, outMint, LoopBody(P, h, outMint, s))

\* "if (inputMint.equals(outputMint)) return null" never taken
SameMintNever(a, b) == FALSE

\* inputMint.equals(outputMint)
SameMint(a, b) == a = b

\* findOptimalRoute of a pathfinder holding pools P and this.maxHops = h
findOptimalRoute(P, h, inMint, outMint, amount) ==
    IF SameMint(inMint, outMint) THEN NoRoute
    ELSE RunLoop(P, h, outMint, SeedLocals(inMint, amount))

(***************************************************************************)
(* Inputs.                                                                 *)
(***************************************************************************)
\* the pools a snapshot is drawn from, over five assets
PoolUniverse ==
    << PoolInfo("p1", "X", "Y", 30, 100, 100),
       PoolInfo("p2", "X", "W", 30, 100, 50),
       PoolInfo("p3", "W", "Y", 30, 10, 400),
       PoolInfo("p4", "Y", "Z", 30, 100, 100),
       PoolInfo("p5", "W", "V", 30, 50, 200),
       PoolInfo("p6", "V", "Y", 30, 100, 300),
       PoolInfo("p7", "X", "Z", 50, 100, 60) >>

\* the pools of PoolUniverse at the indices of S, in the universe's order
RECURSIVE PickPools(_, _)
PickPools(S, i) ==
    IF i > Len(PoolUniverse) THEN <<>>
    ELSE IF i \in S THEN <<PoolUniverse[i]>> \o PickPools(S, i + 1)
    ELSE PickPools(S, i + 1)

Snapshots ==
    { PickPools(S, 1) : S \in { T \in SUBSET (1..Len(PoolUniverse)) :
                                  Cardinality(T) <= MaxPools } }

HopArgs == (0 - 1)..MaxHopsArg

AmountIns == { 10 * k : k \in 0..MaxAmountK }

\* a direct X-Z pool beside an X-Y-Z chain, in every order of the three pools
AltReserves == {50, 100, 200}

AltSnapshots ==
    { << t[o[1]], t[o[2]], t[o[3]] >> :
        t \in { << PoolInfo("d", "X", "Z", 50, 100, rz),
                   PoolInfo("c1", "X", "Y", 30, 100, ry),
                   PoolInfo("c2", "Z", "Y", 30, rzz, 100) >> :
                 rz \in AltReserves, ry \in AltReserves, rzz \in AltReserves },
        o \in { p \in [1..3 -> 1..3] : {p[1], p[2], p[3]} = 1..3 } }

\* the same triangle with fees high enough to charge small amounts
FeeSnapshots ==
    { << t[o[1]], t[o[2]], t[o[3]] >> :
        t \in { << PoolInfo("d", "X", "Z", 2500, 100, rz),
                   PoolInfo("c1", "X", "Y", 500, 100, ry),
                   PoolInfo("c2", "Z", "Y", 1000, 100, 100) >> :
                 rz \in AltReserves, ry \in AltReserves },
        o \in { p \in [1..3 -> 1..3] : {p[1], p[2], p[3]} = 1..3 } }

\* pricing probes: one pool between X and Y, the input mint in or out of it
ProbeFees == {0, 30, 9999}
ProbeReserves == {0, 1, 7, 100, 400}

Probes ==
    [ pool : { PoolInfo("p", "X", "Y", f, ra, rb) :
                 f \in ProbeFees, ra \in ProbeReserves, rb \in ProbeReserves },
      inputMint : {"X", "Y", "Z"},
      amountIn : 0..MaxPriceAmount ]

Pending == [kind |-> "pending", val |-> 0]
NoProbe == [pool |-> PoolInfo("p", "X", "Y", 0, 0, 0), inputMint |-> "X",
            amountIn |-> 0]

(***************************************************************************)
(* Initial states: a constructed pathfinder, no call made yet.             *)
(***************************************************************************)
Constructed(P, h) ==
    /\ pools = P
    /\ hopsArg = h
    /\ maxHops = ClampMaxHops(h)
    /\ inputMint = NoToken
    /\ outputMint = NoToken
    /\ amountIn = 0
    /\ openSet = <<>>
    /\ visited = {}
    /\ bestRoutes = << >>
    /\ bestSolution = NoRoute
    /\ result = NoRoute
    /\ pc = "idle"
    /\ probe = NoProbe
    /\ quoted = Pending
    /\ stateQuoted = Pending
    /\ expansions = <<>>
    /\ quote = NoQuote

Init == \E P \in Snapshots, h \in HopArgs : Constructed(P, h)

InitAlt == \E P \in AltSnapshots, h \in HopArgs : Constructed(P, h)

InitFee == \E P \in FeeSnapshots, h \in HopArgs : Constructed(P, h)

InitPricing ==
    /\ pools = <<>>
    /\ hopsArg = 0
    /\ maxHops = 0
    /\ inputMint = NoToken
    /\ outputMint = NoToken
    /\ amountIn = 0
    /\ openSet = <<>>
    /\ visited = {}
    /\ bestRoutes = << >>
    /\ bestSolution = NoRoute
    /\ result = NoRoute
    /\ pc = "probe"
    /\ probe \in Probes
    /\ quoted = Pending
    /\ stateQuoted = Pending
    /\ expansions = <<>>
    /\ quote = NoQuote

(***************************************************************************)
(* findOptimalRoute, one action per path through it.                       *)
(***************************************************************************)
Cur == Locals(openSet, visited, bestRoutes, bestSolution)

SetLocals(s) ==
    /\ openSet' = s.openSet
    /\ visited' = s.visited
    /\ bestRoutes' = s.bestRoutes
    /\ bestSolution' = s.bestSolution

\* the call with inputMint = outputMint: return null
CallSameMint ==
    /\ pc = "idle"
    /\ \E inMint \in Tokens, outMint \in Tokens, amount \in AmountIns :
         /\ SameMint(inMint, outMint)
         /\ inputMint' = inMint
         /\ outputMint' = outMint
         /\ amountIn' = amount
    /\ result' = NoRoute
    /\ pc' = "done"
    /\ UNCHANGED <<ctorVars, searchVars, probeVars, expansions, quote>>

\* the call up to the while loop
CallStart ==
    /\ pc = "idle"
    /\ \E inMint \in Tokens, outMint \in Tokens, amount \in AmountIns :
         /\ ~SameMint(inMint, outMint)
         /\ inputMint' = inMint
         /\ outputMint' = outMint
         /\ amountIn' = amount
         /\ SetLocals(SeedLocals(inMint, amount))
    /\ pc' = "loop"
    /\ UNCHANGED <<ctorVars, result, probeVars, expansions, quote>>

\* the while loop's condition holds and the popped node takes the branch
Pops(branch) ==
    /\ pc = "loop"
    /\ openSet # <<>>
    /\ Branch(Head(SortOpenSet(openSet)), Cur, maxHops, outputMint) = branch

\* one iteration of the while loop
Iteration ==
    /\ SetLocals(LoopBody(pools, maxHops, outputMint, Cur))
    /\ expansions' =
          LET current == Head(SortOpenSet(openSet))
          IN  IF Branch(current, Cur, maxHops, outputMint) = "expand"
              THEN Append(expansions, current.token)
              ELSE expansions
    /\ UNCHANGED <<ctorVars, callVars, result, pc, probeVars, quote>>

\* the popped node is worse than the best-known entry of its token
SkipStale ==
    /\ Pops("stale")
    /\ Iteration

\* the popped node is at the output mint
ReachDestination ==
    /\ Pops("destination")
    /\ Iteration

\* the popped node has used all its hops
StopAtMaxHops ==
    /\ Pops("maxhops")
    /\ Iteration

\* the popped node is marked visited and its neighbours explored
Expand ==
    /\ Pops("expand")
    /\ Iteration

\* the loop's exit: return bestSolution
Return ==
    /\ pc = "loop"
    /\ openSet = <<>>
    /\ result' = bestSolution
    /\ pc' = "done"
    /\ UNCHANGED <<ctorVars, callVars, searchVars, probeVars, expansions,
                   quote>>

(***************************************************************************)
(* WayfinderClient.getSwapQuote, from the return of findOptimalRoute on.   *)
(***************************************************************************)
\* pools.find((p) => p.address.equals(poolAddress)): its index, 0 if none
FindPool(P, poolAddress) ==
    IF \E i \in 1..Len(P) : P[i].address = poolAddress
    THEN CHOOSE i \in 1..Len(P) :
           /\ P[i].address = poolAddress
           /\ \A j \in 1..(i - 1) : P[j].address # poolAddress
    ELSE 0

\* the fee loop charging every hop on the amount entering that hop
RECURSIVE TotalFeePerHop(_, _, _, _)
TotalFeePerHop(P, route, token, amount) ==
    IF route = <<>> THEN 0
    ELSE LET i == FindPool(P, Head(route))
             out == getOutputAmount(P[i], token, amount)
         IN  IF i = 0 THEN 0
             ELSE BNDiv(amount * P[i].feeBps, BPS)
                  + TotalFeePerHop(P, Tail(route), getOtherToken(P[i], token),
                                   IF out.kind = "some" THEN out.val ELSE 0)

\* "Calculate total fees": every hop is charged on amountIn
RECURSIVE TotalFee(_, _, _, _)
TotalFee(P, route, token, amount) ==
    IF route = <<>> THEN 0
    ELSE LET i == FindPool(P, Head(route))
         IN  (IF i = 0 THEN 0 ELSE BNDiv(amount * P[i].feeBps, BPS))
             + TotalFee(P, Tail(route), token, amount)

\* findOptimalRoute returned null: getSwapQuote returns null
QuoteNoRoute ==
    /\ pc = "done"
    /\ ~result.found
    /\ quote' = NoQuote
    /\ pc' = "quoted"
    /\ UNCHANGED <<ctorVars, callVars, searchVars, result, probeVars,
                   expansions>>

\* findOptimalRoute returned a route: the SwapQuote built from it
QuoteRoute ==
    /\ pc = "done"
    /\ result.found
    /\ quote' = [found |-> TRUE,
                 inputAmount |-> amountIn,
                 outputAmount |-> result.amountOut,
                 priceImpact |-> 0,
                 fee |-> TotalFee(pools, result.route, inputMint, amountIn),
                 route |-> result.route]
    /\ pc' = "quoted"
    /\ UNCHANGED <<ctorVars, callVars, searchVars, result, probeVars,
                   expansions>>

Next ==
    \/ CallSameMint
    \/ CallStart
    \/ SkipStale
    \/ ReachDestination
    \/ StopAtMaxHops
    \/ Expand
    \/ Return
    \/ QuoteNoRoute
    \/ QuoteRoute

Spec == Init /\ [][Next]_vars

SpecAlt == InitAlt /\ [][Next]_vars

\* the snapshots drawn from the triangle p1, p2, p3 of the universe, in
\* which one asset is reached both directly and through another
LiveSnapshots == { PickPools(S, 1) : S \in SUBSET {1, 2, 3} }

InitLive == \E P \in LiveSnapshots, h \in HopArgs : Constructed(P, h)

\* the calls run to completion: the code is sequential, every step that
\* can be taken is taken
SpecLive == InitLive /\ [][Next]_vars /\ WF_vars(Next)

SpecFee == InitFee /\ [][Next]_vars

(***************************************************************************)
(* The two pricing implementations applied to a probe.                     *)
(***************************************************************************)
QuotePathfinder ==
    /\ pc = "probe"
    /\ quoted = Pending
    /\ quoted' = getOutputAmount(probe.pool, probe.inputMint, probe.amountIn)
    /\ UNCHANGED <<ctorVars, callVars, searchVars, result, pc, probe,
                   stateQuoted, expansions, quote>>

QuoteState ==
    /\ pc = "probe"
    /\ stateQuoted = Pending
    /\ stateQuoted' =
          stateGetOutputAmount(probe.pool, probe.inputMint, probe.amountIn)
    /\ UNCHANGED <<ctorVars, callVars, searchVars, result, pc, probe, quoted,
                   expansions, quote>>

NextPricing == QuotePathfinder \/ QuoteState

SpecPricing == InitPricing /\ [][NextPricing]_vars

(***************************************************************************)
(* Reference definitions the properties are stated with.                   *)
(***************************************************************************)
\* the greatest final output of a simple path from token to outMint that
\* uses at most hopsLeft more pools, chaining getOutputAmount; 0 if none
RECURSIVE BestPathFrom(_, _, _, _, _, _)
BestPathFrom(P, token, amount, seen, hopsLeft, outMint) ==
    IF token = outMint THEN amount
    ELSE IF hopsLeft <= 0 THEN 0
    ELSE
      LET via(i) ==
            LET nextToken == getOtherToken(P[i], token)
                out == getOutputAmount(P[i], token, amount)
            IN  IF nextToken = NoToken \/ nextToken \in seen THEN 0
                ELSE IF out.kind # "some" \/ out.val = 0 THEN 0
                ELSE BestPathFrom(P, nextToken, out.val, seen \cup {nextToken},
                                  hopsLeft - 1, outMint)
          outs == { via(i) : i \in 1..Len(P) } \cup {0}
      IN  CHOOSE m \in outs : \A n \in outs : n <= m

BestSimplePath(P, inMint, outMint, amount, h) ==
    BestPathFrom(P, inMint, amount, {inMint}, h, outMint)

\* a pool of P joins a and b
Joined(P, a, b) ==
    \E i \in 1..Len(P) : {P[i].tokenA, P[i].tokenB} = {a, b}

\* the hop bound as the interface states it: clamped to [1, 5]
ClampBoth(h) == IF h > HopCap THEN HopCap ELSE IF h < 1 THEN 1 ELSE h

(***************************************************************************)
(* C7: findOptimalRoute(X, X, amountIn) returns null for every asset X,    *)
(* every pool snapshot, every amountIn and every maxHops.                  *)
(***************************************************************************)
C7_SameMintReturnsNull ==
    pc = "done" /\ inputMint = outputMint => ~result.found

\* such a call has returned, for an asset with a pool, a positive amount and
\* a hop budget
C7_Witness ==
    /\ pc = "done"
    /\ inputMint = outputMint
    /\ amountIn > 0
    /\ maxHops >= 1
    /\ \E i \in 1..Len(pools) : getOtherToken(pools[i], inputMint) # NoToken

(***************************************************************************)
(* C3: with maxHops = h every returned route holds at most h pool          *)
(* identifiers (as does the path of every candidate on the frontier), and  *)
(* with maxHops = 1 and no pool joining input and output the result is     *)
(* null.                                                                   *)
(***************************************************************************)
C3_HopBound ==
    /\ \A i \in 1..Len(openSet) :
          /\ Len(openSet[i].path) = openSet[i].hops
          /\ openSet[i].hops > 0 => openSet[i].hops <= hopsArg
    /\ bestSolution.found => Len(bestSolution.route) <= hopsArg
    /\ pc = "done" /\ result.found => Len(result.route) <= hopsArg
    /\ pc = "done" /\ hopsArg = 1 /\ ~Joined(pools, inputMint, outputMint)
          => ~result.found

\* a search with maxHops = 1 returned null although two pools lead from the
\* input to the output with a positive output
C3_Witness ==
    /\ pc = "done"
    /\ hopsArg = 1
    /\ inputMint # outputMint
    /\ ~Joined(pools, inputMint, outputMint)
    /\ BestSimplePath(pools, inputMint, outputMint, amountIn, 2) > 0
    /\ ~result.found

(***************************************************************************)
(* C8: for a pool with fee in [0, 10000), an input asset of the pool and   *)
(* amountIn >= 0 with a non-zero denominator, both pricing functions       *)
(* return floor(amountIn * (10000 - fee) * reserveOut /                    *)
(* (reserveIn * 10000 + amountIn * (10000 - fee))), which is 0 for         *)
(* amountIn = 0; they return null for an asset that is not in the pool.    *)
(***************************************************************************)
ClosedForm(q) ==
    LET p == probe.pool
        inPool == probe.inputMint \in {p.tokenA, p.tokenB}
        rin == IF probe.inputMint = p.tokenA THEN p.reserveA ELSE p.reserveB
        rout == IF probe.inputMint = p.tokenA THEN p.reserveB ELSE p.reserveA
        num == probe.amountIn * (10000 - p.feeBps) * rout
        den == rin * 10000 + probe.amountIn * (10000 - p.feeBps)
    IN  /\ ~inPool => q = Null
        /\ inPool /\ den # 0 =>
              /\ q.kind = "some"
              /\ q.val * den <= num
              /\ num < (q.val + 1) * den
              /\ probe.amountIn = 0 => q.val = 0

C8_PricingFormula ==
    /\ quoted # Pending => ClosedForm(quoted)
    /\ stateQuoted # Pending => ClosedForm(stateQuoted)

\* both functions priced token B of a pool and rounded a fraction down
C8_Witness ==
    /\ quoted.kind = "some"
    /\ stateQuoted = quoted
    /\ probe.inputMint = probe.pool.tokenB
    /\ probe.pool.feeBps > 0
    /\ quoted.val > 0
    /\ quoted.val < probe.pool.reserveA
    /\ quoted.val * (probe.pool.reserveB * 10000
                       + probe.amountIn * (10000 - probe.pool.feeBps))
          < probe.amountIn * (10000 - probe.pool.feeBps) * probe.pool.reserveA

(***************************************************************************)
(* C9: the pricing function returns null whenever reserveIn = 0 or         *)
(* reserveOut = 0, for any amountIn and fee.                               *)
(***************************************************************************)
C9_ZeroReserveIsNull ==
    LET p == probe.pool
        inPool == probe.inputMint \in {p.tokenA, p.tokenB}
    IN  quoted # Pending /\ inPool /\ (p.reserveA = 0 \/ p.reserveB = 0)
          => quoted = Null

(***************************************************************************)
(* C10: maxHops is clamped to [1, 5]: a pathfinder constructed with any    *)
(* maxHops returns what one constructed with the clamped value returns     *)
(* (the result for 5 above 5, the result for 1 below 1).                   *)
(***************************************************************************)
C10_ClampedBothWays ==
    pc = "done" =>
      result = findOptimalRoute(pools, ClampBoth(hopsArg), inputMint,
                                outputMint, amountIn)

(***************************************************************************)
(* C1: the amountOut returned by findOptimalRoute is >= the final output   *)
(* of every simple path from the input asset to the output asset that uses *)
(* at most maxHops pools (maxHops within 1..5).                            *)
(***************************************************************************)
C1_GlobalOptimality ==
    pc = "done" /\ hopsArg \in 1..HopCap /\ result.found =>
      result.amountOut >=
        BestSimplePath(pools, inputMint, outputMint, amountIn, hopsArg)

(***************************************************************************)
(* C2: whenever some simple path of at most maxHops pools leads from the   *)
(* input asset to the output asset with a non-zero output at every hop,    *)
(* findOptimalRoute returns a route (maxHops within 1..5).                 *)
(***************************************************************************)
C2_Completeness ==
    /\ pc = "done"
    /\ hopsArg \in 1..HopCap
    /\ inputMint # outputMint
    /\ BestSimplePath(pools, inputMint, outputMint, amountIn, hopsArg) > 0
    => result.found

(***************************************************************************)
(* C4: for a fixed snapshot, input, output and amountIn, if h1 <= h2 then  *)
(* a route found with maxHops = h1 is still found with maxHops = h2, and   *)
(* its amountOut is not smaller (h1, h2 within 1..5).                      *)
(***************************************************************************)
C4_HopMonotonicity ==
    pc = "done" /\ hopsArg \in 1..HopCap =>
      \A h1 \in 1..hopsArg :
        LET r1 == findOptimalRoute(pools, ClampMaxHops(h1), inputMint,
                                   outputMint, amountIn)
        IN  r1.found => result.found /\ result.amountOut >= r1.amountOut

(***************************************************************************)
(* C5 as stated: the first candidate popped at the output asset is the     *)
(* optimum, so bestSolution, once set, is never replaced by a candidate    *)
(* popped later.                                                           *)
(***************************************************************************)
C5_FirstPopIsFinal ==
    [][bestSolution.found => bestSolution' = bestSolution]_vars

(***************************************************************************)
(* C5 as amended: each pop takes a candidate with the greatest amountOut   *)
(* then on the frontier; bestSolution, once set, is replaced only by a     *)
(* candidate popped later with a strictly greater amountOut; and the loop  *)
(* run to exhaustion returns the greatest amountOut recorded for the       *)
(* output asset.                                                           *)
(***************************************************************************)
C5_PopsGreatest ==
    pc = "loop" /\ openSet # <<>> =>
      \A i \in 1..Len(openSet) :
        openSet[i].amountOut <= Head(SortOpenSet(openSet)).amountOut

C5_ReturnsBestKnown ==
    pc = "done" /\ inputMint # outputMint =>
      /\ result.found <=> outputMint \in DOMAIN bestRoutes
      /\ result.found => result.amountOut = bestRoutes[outputMint].amount

C5_ReplacedOnlyByGreater ==
    /\ [](C5_PopsGreatest /\ C5_ReturnsBestKnown)
    /\ [][bestSolution.found =>
            /\ bestSolution'.found
            /\ bestSolution' # bestSolution =>
                  bestSolution'.amountOut > bestSolution.amountOut]_vars

\* a solution is held while a candidate at the output asset with a greater
\* amountOut waits on the frontier
C5_Witness ==
    /\ pc = "loop"
    /\ bestSolution.found
    /\ \E i \in 1..Len(openSet) :
          /\ openSet[i].token = outputMint
          /\ openSet[i].amountOut > bestSolution.amountOut

(***************************************************************************)
(* C6: for a snapshot made of a pool joining input and output and a        *)
(* two-pool chain through a third asset, in any order, with maxHops >= 2,  *)
(* findOptimalRoute returns the alternative whose final output is strictly *)
(* greater.                                                                *)
(***************************************************************************)
\* the pool of P joining a and b
PoolJoining(P, a, b) ==
    P[CHOOSE i \in 1..Len(P) : {P[i].tokenA, P[i].tokenB} = {a, b}]

\* the output of a priced hop, 0 when there is none
HopOut(pool, token, amount) ==
    LET out == getOutputAmount(pool, token, amount)
    IN  IF out.kind = "some" THEN out.val ELSE 0

\* P is three pools: one joining a and b, a chain a - mid - b
IsAlternatives(P, a, b, mid) ==
    /\ Len(P) = 3
    /\ Cardinality({a, b, mid}) = 3
    /\ { {P[i].tokenA, P[i].tokenB} : i \in 1..3 }
         = { {a, b}, {a, mid}, {mid, b} }

C6_ChoosesGreaterAlternative ==
    \A mid \in Tokens :
      /\ pc = "done"
      /\ hopsArg >= 2
      /\ IsAlternatives(pools, inputMint, outputMint, mid)
      =>
      LET direct == PoolJoining(pools, inputMint, outputMint)
          first == PoolJoining(pools, inputMint, mid)
          second == PoolJoining(pools, mid, outputMint)
          d == HopOut(direct, inputMint, amountIn)
          c == HopOut(second, mid, HopOut(first, inputMint, amountIn))
      IN  /\ d > c => result = Route(<<direct.address>>, d)
          /\ c > d => result = Route(<<first.address, second.address>>, c)

\* the chain won over a direct pool that comes first in the snapshot and
\* pays out less
C6_Witness ==
    /\ pc = "done"
    /\ hopsArg >= 2
    /\ \E mid \in Tokens :
          /\ IsAlternatives(pools, inputMint, outputMint, mid)
          /\ {pools[1].tokenA, pools[1].tokenB} = {inputMint, outputMint}
          /\ HopOut(pools[1], inputMint, amountIn) > 0
    /\ Len(result.route) = 2
    /\ result.amountOut > HopOut(pools[1], inputMint, amountIn)

(***************************************************************************)
(* C11: the fee of the quote returned by getSwapQuote is the sum over the  *)
(* route's hops of floor(inputAtHop * feeBps / 10000), inputAtHop being    *)
(* amountIn for the first hop and the previous hop's output afterwards.    *)
(***************************************************************************)
C11_FeeOnHopInput ==
    pc = "quoted" /\ quote.found =>
      quote.fee = TotalFeePerHop(pools, quote.route, inputMint, amountIn)

(***************************************************************************)
(* C12: in every route returned by findOptimalRoute the implied asset      *)
(* sequence (the input asset, then each pool's other asset in turn) visits *)
(* each asset at most once and ends at the output asset, and the route is  *)
(* not empty; no candidate on the frontier has a path that revisits an     *)
(* asset.                                                                  *)
(***************************************************************************)
\* the assets a path of pool addresses passes, starting from token
RECURSIVE RouteAssets(_, _, _)
RouteAssets(P, token, route) ==
    IF route = <<>> THEN <<token>>
    ELSE LET i == FindPool(P, Head(route))
             nextToken == IF i = 0 THEN NoToken ELSE getOtherToken(P[i], token)
         IN  <<token>> \o RouteAssets(P, nextToken, Tail(route))

\* the path leads from the input asset to token without repeating an asset
IsSimplePathTo(path, token) ==
    LET assets == RouteAssets(pools, inputMint, path)
    IN  /\ \A i \in 1..Len(assets) : assets[i] \in Tokens
        /\ \A i, j \in 1..Len(assets) : i # j => assets[i] # assets[j]
        /\ assets[Len(assets)] = token

C12_SimpleRoutes ==
    /\ \A i \in 1..Len(openSet) :
          IsSimplePathTo(openSet[i].path, openSet[i].token)
    /\ bestSolution.found =>
          /\ bestSolution.route # <<>>
          /\ IsSimplePathTo(bestSolution.route, outputMint)
    /\ pc = "done" /\ result.found =>
          /\ result.route # <<>>
          /\ IsSimplePathTo(result.route, outputMint)

\* a route of three pools was returned from a snapshot in which a path can
\* come back to the input asset
C12_Witness ==
    /\ pc = "done"
    /\ result.found
    /\ Len(result.route) >= 3
    /\ \E i \in 1..Len(pools) :
          /\ pools[i].address \notin {result.route[k] : k \in 1..Len(result.route)}
          /\ getOtherToken(pools[i], inputMint) # NoToken

(***************************************************************************)
(* C13: for every pool, input asset and amountIn,                          *)
(* PoolInfoState.getOutputAmount has the same outcome as                   *)
(* AStarPathfinder.getOutputAmount, null included: it raises nothing when  *)
(* reserveIn * 10000 + amountIn * (10000 - feeBps) is zero.                *)
(***************************************************************************)
C13_PricingImplementationsAgree ==
    quoted # Pending /\ stateQuoted # Pending =>
      /\ stateQuoted = quoted
      /\ stateQuoted # Throw

(***************************************************************************)
(* C15: for a fixed pool with fee in [0, 10000) and reserveIn > 0, and a   *)
(* fixed input asset, a <= b implies                                       *)
(* getOutputAmount(pool, asset, a) <= getOutputAmount(pool, asset, b).     *)
(***************************************************************************)
ProbeReserveIn ==
    IF probe.inputMint = probe.pool.tokenA
    THEN probe.pool.reserveA
    ELSE probe.pool.reserveB

C15_MonotonicPricing ==
    /\ quoted # Pending
    /\ probe.inputMint \in {probe.pool.tokenA, probe.pool.tokenB}
    /\ ProbeReserveIn > 0
    => \A a \in 0..probe.amountIn :
         LET lower == getOutputAmount(probe.pool, probe.inputMint, a)
         IN  /\ lower.kind = "some"
             /\ quoted.kind = "some"
             /\ lower.val <= quoted.val

\* a priced amount with a smaller amount that pays less and another smaller
\* amount that the floor makes pay the same
C15_Witness ==
    /\ quoted.kind = "some"
    /\ probe.inputMint \in {probe.pool.tokenA, probe.pool.tokenB}
    /\ ProbeReserveIn > 0
    /\ \E a \in 1..probe.amountIn :
          getOutputAmount(probe.pool, probe.inputMint, a).val < quoted.val
    /\ \E a \in 1..(probe.amountIn - 1) :
          getOutputAmount(probe.pool, probe.inputMint, a).val = quoted.val
    /\ quoted.val > 0

(***************************************************************************)
(* C14: throughout one search a candidate for asset T is pushed only if it *)
(* improves on the best-known entry for T (no entry yet, a strictly        *)
(* greater amountOut, or an equal amountOut with fewer hops), the table is *)
(* updated at that same step, the best-known amount of an asset never      *)
(* decreases and no entry is ever removed.                                 *)
(***************************************************************************)
\* the candidate n improves on the table br
Improves(n, br) ==
    \/ n.token \notin DOMAIN br
    \/ n.amountOut > br[n.token].amount
    \/ n.amountOut = br[n.token].amount /\ n.hops < br[n.token].hops

C14_Step ==
    LET kept == Len(openSet) - 1
        pushed == IF pc = "loop" /\ pc' = "loop"
                  THEN (kept + 1)..Len(openSet')
                  ELSE {}
    IN  /\ \A t \in DOMAIN bestRoutes :
              /\ t \in DOMAIN bestRoutes'
              /\ bestRoutes'[t].amount >= bestRoutes[t].amount
              /\ bestRoutes'[t].amount = bestRoutes[t].amount
                    => bestRoutes'[t].hops <= bestRoutes[t].hops
        /\ \A k \in pushed :
              /\ Improves(openSet'[k], bestRoutes)
              /\ openSet'[k].token \in DOMAIN bestRoutes'
              /\ ~Improves(openSet'[k], bestRoutes')
        /\ pc = "loop" =>
              \A t \in DOMAIN bestRoutes' :
                (t \notin DOMAIN bestRoutes \/ bestRoutes'[t] # bestRoutes[t])
                => \E k \in pushed :
                     /\ openSet'[k].token = t
                     /\ openSet'[k].amountOut = bestRoutes'[t].amount
                     /\ openSet'[k].hops = bestRoutes'[t].hops

C14_TableDiscipline == [][C14_Step]_vars

\* two candidates for one asset are on the frontier, the later one pushed
\* because it improved on the entry the earlier one had set
C14_Witness ==
    /\ pc = "loop"
    /\ \E i, j \in 1..Len(openSet) :
          /\ openSet[i].token = openSet[j].token
          /\ openSet[i].amountOut < openSet[j].amountOut
          /\ bestRoutes[openSet[j].token].amount = openSet[j].amountOut

(***************************************************************************)
(* C16: replaying a route from the input asset with amountIn, each hop's   *)
(* output fed into the next pool through the pricing formula, yields       *)
(* exactly the amountOut carried with it.  As stated: this holds, with     *)
(* amountOut > 0, for the returned route and for every candidate on the    *)
(* frontier.                                                               *)
(***************************************************************************)
\* the amount a route turns amount of token into, hop by hop
RECURSIVE Replay(_, _, _, _)
Replay(P, token, amount, route) ==
    IF route = <<>> THEN Some(amount)
    ELSE LET i == FindPool(P, Head(route))
             out == getOutputAmount(P[i], token, amount)
         IN  IF i = 0 THEN Null
             ELSE IF out.kind # "some" THEN Null
             ELSE Replay(P, getOtherToken(P[i], token), out.val, Tail(route))

Replays(path, amount) == Replay(pools, inputMint, amountIn, path) = Some(amount)

C16_ReplayAndPositive ==
    /\ pc = "loop" =>
          \A i \in 1..Len(openSet) :
             /\ Replays(openSet[i].path, openSet[i].amountOut)
             /\ openSet[i].amountOut > 0
    /\ pc = "done" /\ result.found =>
          /\ Replays(result.route, result.amountOut)
          /\ result.amountOut > 0

(***************************************************************************)
(* C16, amended: the replay yields exactly amountOut for the returned      *)
(* route and for every candidate on the frontier; amountOut > 0 holds for  *)
(* the returned route and for every candidate with a non-empty path, while *)
(* the seed candidate carries amountIn, which is 0 when amountIn is 0.     *)
(***************************************************************************)
C16_ReplayConsistent ==
    /\ pc = "loop" =>
          \A i \in 1..Len(openSet) :
             /\ Replays(openSet[i].path, openSet[i].amountOut)
             /\ openSet[i].path # <<>> => openSet[i].amountOut > 0
             /\ openSet[i].path = <<>> => openSet[i].amountOut = amountIn
    /\ bestSolution.found =>
          /\ Replays(bestSolution.route, bestSolution.amountOut)
          /\ bestSolution.amountOut > 0
    /\ pc = "done" /\ result.found =>
          /\ Replays(result.route, result.amountOut)
          /\ result.amountOut > 0

\* a route of at least two hops was returned, so the replay feeds one
\* pool's output into the next
C16_Witness ==
    /\ pc = "done"
    /\ result.found
    /\ Len(result.route) >= 2
    /\ result.amountOut # amountIn

(***************************************************************************)
(* C17: the search loop of findOptimalRoute terminates, its frontier       *)
(* emptying, and within one search every asset is expanded (marked visited *)
(* and its neighbours explored) at most once, even when several candidates *)
(* for the same asset were pushed before it was first expanded.            *)
(***************************************************************************)
ExpandedOnce ==
    /\ \A i, j \in 1..Len(expansions) :
          i # j => expansions[i] # expansions[j]
    /\ {expansions[i] : i \in 1..Len(expansions)} = visited

\* what is left to do: assets not yet expanded, then candidates to pop
Remaining(vs, os) ==
    Cardinality(Tokens \ vs) * (Len(pools) + 1) + Len(os)

\* every iteration of the loop leaves less to do
LoopVariant ==
    pc = "loop" /\ pc' = "loop" =>
      Remaining(visited', openSet') < Remaining(visited, openSet)

C17_TerminatesExpandingOnce ==
    /\ [](pc = "loop" => ExpandedOnce)
    /\ [][LoopVariant]_vars
    /\ (pc = "loop") ~> (pc = "done" /\ openSet = <<>>)

\* an asset has been expanded while another candidate for it, pushed before
\* that expansion, is still on the frontier
C17_Witness ==
    /\ pc = "loop"
    /\ \E i \in 1..Len(openSet) : openSet[i].token \in visited

====
